---------------------------- MODULE Spec2Model ----------------------------
(***************************************************************************)
(* LoRa wake-up coordination: the packet codecs (Timer, TimerPacket), the  *)
(* channel-access state machine of the periodic broadcaster with its       *)
(* listener (RAK_Sender/WakeUpCoordination.h) and the host/client          *)
(* request-acknowledge round (WakeUpCoordination::hostCoordinate and       *)
(* clientCoordinate).                                                      *)
(*                                                                         *)
(* 32-bit unsigned quantities (millis(), _packetCounter, the returned      *)
(* sleep duration) are kept as two 16-bit halves [hi, lo] so that their    *)
(* modulo-2^32 arithmetic is computed exactly.                             *)
(***************************************************************************)
EXTENDS Integers, Sequences, FiniteSets, TLC

(***************************************************************************)
(* Bounds of the model                                                     *)
(***************************************************************************)
\* Milliseconds of true time the broadcaster model follows.
MaxClock == 6000

\* Clock advances between two program steps (ms).
TickSteps == {500}

\* begin(interval_ms, wake_window_ms) arguments that are tried.
CycleIntervals == {2000, 3000}
WakeWindows == {1000, 3000}

(***************************************************************************)
(* Bytes and fixed-width unsigned integers                                 *)
(***************************************************************************)
RECURSIVE Xor(_, _)
\* a ^ b on non-negative integers (the uint8_t ^= of the checksum loops)
Xor(a, b) ==
  IF a = 0 THEN b
  ELSE IF b = 0 THEN a
  ELSE (((a % 2) + (b % 2)) % 2) + 2 * Xor(a \div 2, b \div 2)

RECURSIVE XorBytes(_, _)
\* chk = 0; for (i = 0; i < length; ++i) chk ^= data[i];
XorBytes(data, length) ==
  IF length = 0 THEN 0
  ELSE CHOOSE chk \in { Xor(prev, data[length]) : prev \in { XorBytes(data, length - 1) } } :
         TRUE

\* memcpy of a uint16_t to / from two bytes (little-endian targets)
U16Bytes(v) == << v % 256, v \div 256 >>
U16FromBytes(b, off) == b[off + 1] + 256 * b[off + 2]

\* a uint32_t as two 16-bit halves
U32(hi, lo) == [hi |-> hi, lo |-> lo]
U32FromNat(n) == U32((n \div 65536) % 65536, n % 65536)
U32Zero == U32(0, 0)
U32Max == U32(65535, 65535)
\* a + n modulo 2^32, n a small natural number
U32Add(a, n) ==
  LET lo == a.lo + (n % 65536)
      hi == a.hi + (n \div 65536) + (lo \div 65536)
  IN  U32(hi % 65536, lo % 65536)
\* a - b that stops at zero instead of wrapping
U32Sub_Saturating(a, b) ==
  IF a.hi < b.hi \/ (a.hi = b.hi /\ a.lo < b.lo) THEN [hi |-> 0, lo |-> 0]
  ELSE LET borrow == IF a.lo < b.lo THEN 1 ELSE 0
       IN  [hi |-> (a.hi + 65536 - b.hi - borrow) % 65536,
            lo |-> (a.lo + 65536 - b.lo) % 65536]

\* a - b modulo 2^32 (unsigned subtraction)
U32Sub(a, b) ==
  LET borrow == IF a.lo < b.lo THEN 1 ELSE 0
  IN  U32((a.hi + 65536 - b.hi - borrow) % 65536, (a.lo + 65536 - b.lo) % 65536)
U32Less(a, b) == a.hi < b.hi \/ (a.hi = b.hi /\ a.lo < b.lo)
U32GE(a, b) == ~U32Less(a, b)
U32Greater(a, b) == U32Less(b, a)
\* a / 1000 (unsigned division); the quotient is below 2^23
U32Div1000(a) ==
  (a.hi \div 1000) * 65536 + (((a.hi % 1000) * 65536 + a.lo) \div 1000)
U32Bytes(a) == U16Bytes(a.lo) \o U16Bytes(a.hi)
U32FromBytes(b, off) == U32(U16FromBytes(b, off + 2), U16FromBytes(b, off))

(***************************************************************************)
(* TimerPacket of the broadcaster (RAK_Sender): packetId(4) interval(2)    *)
(* window(2) checksum(1)                                                   *)
(***************************************************************************)
\* sizeof(packetId) + sizeof(messageInterval_s) + sizeof(wakeWindow_s) + sizeof(checksum)
PACKET_SIZE == 4 + 2 + 2 + 1

\* TimerPacket_memory of a layout with two padding bytes after packetId
TimerPacket_memory_Padded(p) ==
  U32Bytes(p.packetId) \o << 165, 165 >> \o U16Bytes(p.messageInterval_s)
    \o U16Bytes(p.wakeWindow_s) \o << p.checksum >>

\* The object's memory as calculateChecksum reads it through byte_ptr: the
\* members in declaration order; no padding precedes the checksum member.
TimerPacket_memory(p) ==
  U32Bytes(p.packetId) \o U16Bytes(p.messageInterval_s)
    \o U16Bytes(p.wakeWindow_s) \o << p.checksum >>

\* TimerPacket_calculateChecksum with a loop that stops one byte early
TimerPacket_calculateChecksum_Short(p) ==
  XorBytes(TimerPacket_memory(p), PACKET_SIZE - 2)

\* XOR of the first PACKET_SIZE - sizeof(checksum) bytes of the object
TimerPacket_calculateChecksum(p) ==
  XorBytes(TimerPacket_memory(p), PACKET_SIZE - 1)

\* TimerPacket()
TimerPacket_default ==
  [packetId |-> U32Zero, messageInterval_s |-> 0, wakeWindow_s |-> 0, checksum |-> 0]

\* TimerPacket(id, interval, window)
TimerPacket_new(id, interval, window) ==
  LET p == [packetId |-> id, messageInterval_s |-> interval,
            wakeWindow_s |-> window, checksum |-> 0]
  IN  [p EXCEPT !.checksum = TimerPacket_calculateChecksum(p)]

\* serialize(buffer): the four members copied in order
TimerPacket_serialize(p) ==
  U32Bytes(p.packetId) \o U16Bytes(p.messageInterval_s)
    \o U16Bytes(p.wakeWindow_s) \o << p.checksum >>

\* TimerPacket_deserialize that checks before it copies packetId
TimerPacket_deserialize_KeepId(p, buffer) ==
  LET q == [p EXCEPT !.messageInterval_s = U16FromBytes(buffer, 4),
                     !.wakeWindow_s = U16FromBytes(buffer, 6)]
      receivedChecksum == buffer[9]
  IN  IF receivedChecksum = TimerPacket_calculateChecksum(q)
      THEN [ok |-> TRUE, pkt |-> [q EXCEPT !.packetId = U32FromBytes(buffer, 0),
                                           !.checksum = receivedChecksum]]
      ELSE [ok |-> FALSE, pkt |-> q]

\* deserialize(buffer) on object p: the payload members are overwritten first,
\* the checksum member only when the received checksum matches.
TimerPacket_deserialize(p, buffer) ==
  LET q == [p EXCEPT !.packetId = U32FromBytes(buffer, 0),
                     !.messageInterval_s = U16FromBytes(buffer, 4),
                     !.wakeWindow_s = U16FromBytes(buffer, 6)]
      receivedChecksum == buffer[9]
  IN  IF receivedChecksum = TimerPacket_calculateChecksum(q)
      THEN [ok |-> TRUE, pkt |-> [q EXCEPT !.checksum = receivedChecksum]]
      ELSE [ok |-> FALSE, pkt |-> q]

(***************************************************************************)
(* Timer of the host/client round (working coordination/Timer.h):          *)
(* currentTime(8) messageInterval(2) waitTime(2) sleepState(1) checksum(1) *)
(***************************************************************************)
\* sizeof(time_t) on the target (the 14-byte layout of the wire format)
SIZEOF_TIME_T == 8

\* sizeof(time_t) + 2 * sizeof(uint16_t) + sizeof(uint8_t) + sizeof(uint8_t)
DATA_SIZE == SIZEOF_TIME_T + 2 * 2 + 1 + 1

\* a time_t as four 16-bit limbs, least significant first; its memcpy to and
\* from eight bytes
TimeBytes(t) == U16Bytes(t[1]) \o U16Bytes(t[2]) \o U16Bytes(t[3]) \o U16Bytes(t[4])
TimeFromBytes(b) ==
  << U16FromBytes(b, 0), U16FromBytes(b, 2), U16FromBytes(b, 4), U16FromBytes(b, 6) >>

\* Timer(currentTime, messageInterval, waitTime, sleepState): sleepState & 0x03
Timer_new(currentTime, messageInterval, waitTime, sleepState) ==
  [currentTime |-> currentTime, messageInterval |-> messageInterval,
   waitTime |-> waitTime, sleepState |-> sleepState % 4]

\* Timer::serialize(data): the four members, then the XOR of those 13 bytes
Timer_serialize(t) ==
  LET payload == TimeBytes(t.currentTime) \o U16Bytes(t.messageInterval)
                   \o U16Bytes(t.waitTime) \o << t.sleepState >>
  IN  payload \o << XorBytes(payload, DATA_SIZE - 1) >>

\* Timer::deserialize(data) on object t: nothing is written on a mismatch; on
\* a match the members are copied, sleepState as the whole byte
Timer_deserialize(t, data) ==
  LET checksum == data[DATA_SIZE]
      calculatedChecksum == XorBytes(data, DATA_SIZE - 1)
  IN  IF checksum # calculatedChecksum
      THEN [ok |-> FALSE, timer |-> t]
      ELSE [ok |-> TRUE,
            timer |-> [currentTime |-> TimeFromBytes(data),
                       messageInterval |-> U16FromBytes(data, SIZEOF_TIME_T),
                       waitTime |-> U16FromBytes(data, SIZEOF_TIME_T + 2),
                       sleepState |-> data[SIZEOF_TIME_T + 5]]]

\* the members after the error branch of Timer(const uint8_t* data)
Timer_zero ==
  [currentTime |-> << 0, 0, 0, 0 >>, messageInterval |-> 0, waitTime |-> 0,
   sleepState |-> 0]

\* Timer(const uint8_t* data)
Timer_fromData(data) ==
  LET r == Timer_deserialize(Timer_zero, data)
  IN  IF r.ok THEN r.timer ELSE Timer_zero

(***************************************************************************)
(* The broadcaster (WakeUpCoordinator, role SENDER) and the listener       *)
(* (role RECEIVER)                                                         *)
(***************************************************************************)
VARIABLES
  senderState,        \* volatile SenderState_t senderState
  cycleInterval,      \* _cycleInterval (ms)
  wakeWindow,         \* _wakeWindow (ms)
  lastCycleStartTime, \* _lastCycleStartTime, a millis() reading
  packetCounter,      \* _packetCounter
  bootMillis,         \* the millisecond counter when begin() ran
  clock,              \* true milliseconds elapsed since begin()
  radio,              \* what the sender's radio was last told to do
  cadPending,         \* a channel sense was requested, its CadDone is not yet delivered
  txPending,          \* a Radio.Send is under way, its TxDone/TxTimeout is not yet delivered
  sendLog,            \* the buffers handed to Radio.Send, with the packets composed
  cyc,                \* bookkeeping of the current cycle (history)
  ev,                 \* the handler that ran last (history)
  listening,          \* the listener's radio is in receive mode
  rxOutcome,          \* what the listener's last OnRxDone did with the payload
  rxStarts,           \* Radio.Rx(0) calls made by the listener's last handler
  rxPayload,          \* the payload the listener's last handler was given
  rxPacket            \* the fields the listener printed last

bvars == << senderState, cycleInterval, wakeWindow, lastCycleStartTime, packetCounter,
            bootMillis, clock, radio, cadPending, txPending, sendLog, cyc, ev,
            listening, rxOutcome, rxStarts, rxPayload, rxPacket >>

\* the broadcaster's and the listener's own state, without the clock
senderVars == << senderState, cycleInterval, wakeWindow, lastCycleStartTime,
                 packetCounter, radio, cadPending, txPending, sendLog, cyc, listening,
                 rxOutcome, rxStarts, rxPayload, rxPacket >>

\* enum SenderState_t
IDLE == "IDLE"
CAD_IN_PROGRESS == "CAD_IN_PROGRESS"
READY_TO_SEND == "READY_TO_SEND"
WAITING_FOR_TX_DONE == "WAITING_FOR_TX_DONE"
CYCLE_COMPLETE == "CYCLE_COMPLETE"

\* millis(): an unsigned 32-bit counter that wraps
millis == U32Add(bootMillis, clock)

\* millis() - _lastCycleStartTime
SinceCycleStart == U32Sub(millis, lastCycleStartTime)

\* bookkeeping: the state the coordinator is left in is appended to the cycle's
\* trace when a handler changed it
Visit(c, s) == IF s = senderState THEN c ELSE [c EXCEPT !.trace = Append(@, s)]

NoCycle ==
  [byRun |-> FALSE, busy |-> FALSE, clear |-> FALSE, clearInWindow |-> FALSE,
   trace |-> << IDLE >>,
   sends |-> 0, startCounter |-> U32Zero, startClock |-> 0, index |-> 0]

(***************************************************************************)
(* State of the host/client round and of the codec runs (their operations  *)
(* follow below)                                                           *)
(***************************************************************************)
VARIABLES
  hostPc,             \* where hostCoordinate stands
  hostInterval,       \* messageInterval the host puts in its packets
  hostTimer,          \* the caller's Timer& on the host
  lastSendTime,       \* hostCoordinate's local lastSendTime
  lastSentMessage,    \* the member lastSentMessage {sendTime, checksum}
  hostData,           \* hostCoordinate's data[DATA_SIZE]
  hostReceived,       \* hostCoordinate's receivedData[DATA_SIZE]
  hostResult,         \* the value hostCoordinate returned
  hostLog,            \* the host's transmissions and its return (history)
  clientPc,           \* where clientCoordinate stands
  clientTimer,        \* the caller's Timer& on the client
  clientReceived,     \* clientCoordinate's receivedData[DATA_SIZE]
  clientLen,          \* length of the frame the last radio.receive delivered
  clientChecksum,     \* receivedChecksum
  clientReceivedTime, \* receivedTime
  clientI,            \* the acknowledgment loop's i
  clientResult,       \* the value clientCoordinate returned
  clientLog,          \* the client's transmissions and adoption (history)
  air                 \* the frames last put on the air by the host and by the client

hvars == << hostPc, hostInterval, hostTimer, lastSendTime, lastSentMessage, hostData,
            hostReceived, hostResult, hostLog, clientPc, clientTimer, clientReceived,
            clientLen, clientChecksum, clientReceivedTime, clientI, clientResult,
            clientLog, air >>

VARIABLES
  codecPc,            \* step of the codec run
  codecIn,            \* the packet object that is encoded
  codecBuf,           \* the encoded buffer
  codecOut,           \* the result of decoding: [ok, pkt]
  codecFlip,          \* the bit of the buffer that was flipped on the way, if any
  codecRuns,          \* number of times the buffer was decoded
  codecTarget,        \* the object the last decode was called on, as it was before
  codecFixed          \* the buffer written after recomputeChecksum(), if any

cvars == << codecPc, codecIn, codecBuf, codecOut, codecFlip, codecRuns, codecTarget,
            codecFixed >>

vars == << bvars, hvars, cvars >>

(***************************************************************************)
(* WakeUpCoordinator::run(), role SENDER: one definition per case of the   *)
(* switch on senderState                                                   *)
(***************************************************************************)
\* RunIdle without _lastCycleStartTime = millis()
RunIdle_NoReset ==
  /\ senderState = IDLE
  /\ IF U32GE(SinceCycleStart, U32FromNat(cycleInterval))
     THEN /\ lastCycleStartTime' = lastCycleStartTime
          /\ senderState' = CAD_IN_PROGRESS
          /\ radio' = "cad"
          /\ cadPending' = TRUE
          /\ cyc' = [byRun |-> TRUE, busy |-> FALSE, clear |-> FALSE,
                     clearInWindow |-> FALSE,
                     trace |-> << IDLE, CAD_IN_PROGRESS >>, sends |-> 0,
                     startCounter |-> packetCounter, startClock |-> clock,
                     index |-> cyc.index + 1]
     ELSE UNCHANGED << lastCycleStartTime, senderState, radio, cadPending, cyc >>
  /\ UNCHANGED << packetCounter, txPending, sendLog >>

\* case IDLE: a new cycle starts once the cycle interval has elapsed
RunIdle ==
  /\ senderState = IDLE
  /\ IF U32GE(SinceCycleStart, U32FromNat(cycleInterval))
     THEN /\ lastCycleStartTime' = millis
          /\ senderState' = CAD_IN_PROGRESS
          /\ radio' = "cad"                \* Radio.Standby(); Radio.StartCad();
          /\ cadPending' = TRUE
          /\ cyc' = [byRun |-> TRUE, busy |-> FALSE, clear |-> FALSE,
                     clearInWindow |-> FALSE,
                     trace |-> << IDLE, CAD_IN_PROGRESS >>, sends |-> 0,
                     startCounter |-> packetCounter, startClock |-> clock,
                     index |-> cyc.index + 1]
     ELSE UNCHANGED << lastCycleStartTime, senderState, radio, cadPending, cyc >>
  /\ UNCHANGED << packetCounter, txPending, sendLog >>

\* RunCad without the test of the wake window
RunCad_NoExpiry ==
  /\ senderState = CAD_IN_PROGRESS
  /\ UNCHANGED << radio, senderState, cyc >>
  /\ UNCHANGED << lastCycleStartTime, packetCounter, cadPending, txPending, sendLog >>

\* RunCad with the window test written >= instead of >
RunCad_GE ==
  /\ senderState = CAD_IN_PROGRESS
  /\ IF U32GE(SinceCycleStart, U32FromNat(wakeWindow))
     THEN /\ radio' = "sleep"
          /\ senderState' = CYCLE_COMPLETE
          /\ cyc' = Visit(cyc, CYCLE_COMPLETE)
     ELSE UNCHANGED << radio, senderState, cyc >>
  /\ UNCHANGED << lastCycleStartTime, packetCounter, cadPending, txPending, sendLog >>

\* case CAD_IN_PROGRESS: the cycle is given up once the wake window is over
RunCad ==
  /\ senderState = CAD_IN_PROGRESS
  /\ IF U32Greater(SinceCycleStart, U32FromNat(wakeWindow))
     THEN /\ radio' = "sleep"              \* Radio.Sleep();
          /\ senderState' = CYCLE_COMPLETE
          /\ cyc' = Visit(cyc, CYCLE_COMPLETE)
     ELSE UNCHANGED << radio, senderState, cyc >>
  /\ UNCHANGED << lastCycleStartTime, packetCounter, cadPending, txPending, sendLog >>

\* packet_to_send(_packetCounter, _cycleInterval / 1000, _wakeWindow / 1000):
\* the quotients are narrowed to uint16_t
ComposedPacket ==
  TimerPacket_new(packetCounter, (cycleInterval \div 1000) % 65536,
                  (wakeWindow \div 1000) % 65536)

\* the buffer run() hands to Radio.Send: the serialized packet whose last byte
\* is then XORed with 0xFF ("INTENTIONALLY CORRUPT THE PACKET")
SendBuffer ==
  LET buffer == TimerPacket_serialize(ComposedPacket)
  IN  [buffer EXCEPT ![PACKET_SIZE] = Xor(@, 255)]

\* RunReady with _packetCounter++ done before the packet is composed
RunReady_IncrementFirst ==
  /\ senderState = READY_TO_SEND
  /\ LET p == TimerPacket_new(U32Add(packetCounter, 1), (cycleInterval \div 1000) % 65536,
                               (wakeWindow \div 1000) % 65536)
         buffer == TimerPacket_serialize(p)
     IN  sendLog' = Append(sendLog, [buffer |-> [buffer EXCEPT ![PACKET_SIZE] = Xor(@, 255)],
                                     packet |-> p])
  /\ radio' = "tx"
  /\ txPending' = TRUE
  /\ packetCounter' = U32Add(packetCounter, 1)
  /\ senderState' = WAITING_FOR_TX_DONE
  /\ cyc' = [Visit(cyc, WAITING_FOR_TX_DONE) EXCEPT !.sends = @ + 1]
  /\ UNCHANGED << lastCycleStartTime, cadPending >>

\* RunReady without _packetCounter++
RunReady_NoIncrement ==
  /\ senderState = READY_TO_SEND
  /\ sendLog' = Append(sendLog, [buffer |-> SendBuffer, packet |-> ComposedPacket])
  /\ radio' = "tx"
  /\ txPending' = TRUE
  /\ senderState' = WAITING_FOR_TX_DONE
  /\ cyc' = [Visit(cyc, WAITING_FOR_TX_DONE) EXCEPT !.sends = @ + 1]
  /\ UNCHANGED << lastCycleStartTime, cadPending, packetCounter >>

\* case READY_TO_SEND
RunReady ==
  /\ senderState = READY_TO_SEND
  /\ sendLog' = Append(sendLog, [buffer |-> SendBuffer, packet |-> ComposedPacket])
  /\ radio' = "tx"                         \* Radio.Send(buffer, PACKET_SIZE);
  /\ txPending' = TRUE
  /\ packetCounter' = U32Add(packetCounter, 1)
  /\ senderState' = WAITING_FOR_TX_DONE
  /\ cyc' = [Visit(cyc, WAITING_FOR_TX_DONE) EXCEPT !.sends = @ + 1]
  /\ UNCHANGED << lastCycleStartTime, cadPending >>

\* case WAITING_FOR_TX_DONE: nothing to do
RunWaiting ==
  /\ senderState = WAITING_FOR_TX_DONE
  /\ UNCHANGED << senderState, lastCycleStartTime, packetCounter, radio, cadPending,
                  txPending, sendLog, cyc >>

\* case CYCLE_COMPLETE
RunComplete ==
  /\ senderState = CYCLE_COMPLETE
  /\ senderState' = IDLE
  /\ cyc' = Visit(cyc, IDLE)
  /\ UNCHANGED << lastCycleStartTime, packetCounter, radio, cadPending, txPending,
                  sendLog >>

Run ==
  /\ (RunIdle \/ RunCad \/ RunReady \/ RunWaiting \/ RunComplete)
  /\ ev' = "run"
  /\ UNCHANGED << cycleInterval, wakeWindow, bootMillis, clock, listening, rxOutcome,
                  rxStarts, rxPayload, rxPacket, hvars, cvars >>

(***************************************************************************)
(* Notifications of the sender's radio                                     *)
(***************************************************************************)
\* OnCadDone(channelActivityDetected), g_Coordinator set
OnCadDone(channelActivityDetected) ==
  /\ cadPending
  /\ IF channelActivityDetected
     THEN /\ radio' = "cad"                \* Radio.StartCad();
          /\ cadPending' = TRUE
          /\ cyc' = [cyc EXCEPT !.busy = TRUE]
          /\ UNCHANGED senderState
     ELSE /\ senderState' = READY_TO_SEND
          /\ cadPending' = FALSE
          /\ cyc' = [Visit(cyc, READY_TO_SEND) EXCEPT
                       !.clear = TRUE,
                       !.clearInWindow = @ \/ (clock - cyc.startClock <= wakeWindow)]
          /\ UNCHANGED radio
  /\ ev' = IF channelActivityDetected THEN "cad_busy" ELSE "cad_clear"
  /\ UNCHANGED << cycleInterval, wakeWindow, lastCycleStartTime, packetCounter,
                  bootMillis, clock, txPending, sendLog, listening, rxOutcome,
                  rxStarts, rxPayload, rxPacket, hvars, cvars >>

\* OnTxDone(), g_Coordinator set
OnTxDone ==
  /\ txPending
  /\ txPending' = FALSE
  /\ radio' = "sleep"                      \* Radio.Sleep();
  /\ senderState' = CYCLE_COMPLETE
  /\ cyc' = Visit(cyc, CYCLE_COMPLETE)
  /\ ev' = "tx_done"
  /\ UNCHANGED << cycleInterval, wakeWindow, lastCycleStartTime, packetCounter,
                  bootMillis, clock, cadPending, sendLog, listening, rxOutcome,
                  rxStarts, rxPayload, rxPacket, hvars, cvars >>

\* OnTxTimeout without its Radio.Sleep()
OnTxTimeout_NoSleep ==
  /\ txPending
  /\ txPending' = FALSE
  /\ radio' = radio
  /\ senderState' = CYCLE_COMPLETE
  /\ cyc' = Visit(cyc, CYCLE_COMPLETE)
  /\ ev' = "tx_timeout"
  /\ UNCHANGED << cycleInterval, wakeWindow, lastCycleStartTime, packetCounter,
                  bootMillis, clock, cadPending, sendLog, listening, rxOutcome,
                  rxStarts, rxPayload, rxPacket, hvars, cvars >>

\* OnTxTimeout(), g_Coordinator set
OnTxTimeout ==
  /\ txPending
  /\ txPending' = FALSE
  /\ radio' = "sleep"                      \* Radio.Sleep();
  /\ senderState' = CYCLE_COMPLETE
  /\ cyc' = Visit(cyc, CYCLE_COMPLETE)
  /\ ev' = "tx_timeout"
  /\ UNCHANGED << cycleInterval, wakeWindow, lastCycleStartTime, packetCounter,
                  bootMillis, clock, cadPending, sendLog, listening, rxOutcome,
                  rxStarts, rxPayload, rxPacket, hvars, cvars >>

\* the millisecond counter advances
Tick ==
  /\ \E d \in TickSteps : clock + d <= MaxClock /\ clock' = clock + d
  /\ ev' = "tick"
  /\ UNCHANGED << senderState, cycleInterval, wakeWindow, lastCycleStartTime,
                  packetCounter, bootMillis, radio, cadPending, txPending, sendLog, cyc,
                  listening, rxOutcome, rxStarts, rxPayload, rxPacket, hvars, cvars >>

(***************************************************************************)
(* Notifications of the listener's radio (role RECEIVER)                   *)
(***************************************************************************)
\* frames of other origin that may reach the listener: too short, too long, a
\* well-formed packet of another sender, and that packet cut by one byte
ForeignPacket == TimerPacket_new(U32(1, 515), 10, 3)
NoiseFrames ==
  { << 1, 2, 3 >>,
    TimerPacket_serialize(ForeignPacket),
    SubSeq(TimerPacket_serialize(ForeignPacket), 1, PACKET_SIZE - 1),
    TimerPacket_serialize(ForeignPacket) \o << 0 >> }

\* what can be received: the broadcaster's last buffer, unmodified, or noise
RxFrames ==
  (IF sendLog = << >> THEN {} ELSE { sendLog[Len(sendLog)].buffer }) \cup NoiseFrames

\* RxDecision with a size test that lets longer payloads through
RxDecision_AtLeast(payload, size) ==
  IF size < PACKET_SIZE
  THEN [outcome |-> "size", pkt |-> TimerPacket_default]
  ELSE LET r == TimerPacket_deserialize(TimerPacket_default, payload)
       IN  IF r.ok THEN [outcome |-> "valid", pkt |-> r.pkt]
                   ELSE [outcome |-> "checksum", pkt |-> r.pkt]

\* the decision of OnRxDone(payload, size, rssi, snr)
RxDecision(payload, size) ==
  IF size # PACKET_SIZE
  THEN [outcome |-> "size", pkt |-> TimerPacket_default]
  ELSE LET r == TimerPacket_deserialize(TimerPacket_default, payload)
       IN  IF r.ok THEN [outcome |-> "valid", pkt |-> r.pkt]
                   ELSE [outcome |-> "checksum", pkt |-> r.pkt]

\* the Radio.Rx(0) calls on the path OnRxDone takes: one before the early
\* return on a wrong size, one at the end of the handler otherwise
RxRestarts(outcome) ==
  IF outcome = "size" THEN 1               \* Radio.Rx(0); return;
  ELSE 1                                   \* Radio.Rx(0) after the if/else

\* OnRxDone(payload, size, rssi, snr); every path ends in Radio.Rx(0)
OnRxDone ==
  /\ listening
  /\ \E payload \in RxFrames :
       LET d == RxDecision(payload, Len(payload))
       IN  /\ rxOutcome' = d.outcome
           /\ rxPacket' = IF d.outcome = "valid" THEN d.pkt ELSE rxPacket
           /\ rxStarts' = RxRestarts(d.outcome)
           /\ rxPayload' = payload
           /\ listening' = (RxRestarts(d.outcome) > 0)
  /\ ev' = "rx_done"
  /\ UNCHANGED << senderState, cycleInterval, wakeWindow, lastCycleStartTime,
                  packetCounter, bootMillis, clock, radio, cadPending, txPending,
                  sendLog, cyc, hvars, cvars >>

\* OnRxTimeout()
OnRxTimeout ==
  /\ listening
  /\ listening' = TRUE                     \* Radio.Rx(0);
  /\ rxStarts' = 1
  /\ rxOutcome' = "timeout"
  /\ rxPayload' = << >>
  /\ ev' = "rx_timeout"
  /\ UNCHANGED << senderState, cycleInterval, wakeWindow, lastCycleStartTime,
                  packetCounter, bootMillis, clock, radio, cadPending, txPending,
                  sendLog, cyc, rxPacket, hvars, cvars >>

\* OnRxError without its Radio.Rx(0)
OnRxError_NoRx ==
  /\ listening
  /\ listening' = FALSE
  /\ rxStarts' = 0
  /\ rxOutcome' = "error"
  /\ rxPayload' = << >>
  /\ ev' = "rx_error"
  /\ UNCHANGED << senderState, cycleInterval, wakeWindow, lastCycleStartTime,
                  packetCounter, bootMillis, clock, radio, cadPending, txPending,
                  sendLog, cyc, rxPacket, hvars, cvars >>

\* OnRxError()
OnRxError ==
  /\ listening
  /\ listening' = TRUE                     \* Radio.Rx(0);
  /\ rxStarts' = 1
  /\ rxOutcome' = "error"
  /\ rxPayload' = << >>
  /\ ev' = "rx_error"
  /\ UNCHANGED << senderState, cycleInterval, wakeWindow, lastCycleStartTime,
                  packetCounter, bootMillis, clock, radio, cadPending, txPending,
                  sendLog, cyc, rxPacket, hvars, cvars >>

(***************************************************************************)
(* Specification of the broadcaster and the listener                       *)
(***************************************************************************)
\* values of the millisecond counter at begin(): zero, and 2500 ms before it wraps
BootValues == { U32Zero, U32(65535, 65536 - 2500) }

\* the host/client round and the codec runs take no part
HostClientOff ==
  /\ hostPc = "off" /\ hostInterval = 0 /\ hostTimer = << >>
  /\ lastSendTime = U32Zero /\ lastSentMessage = << >> /\ hostData = << >>
  /\ hostReceived = << >> /\ hostResult = << >> /\ hostLog = << >>
  /\ clientPc = "off" /\ clientTimer = << >> /\ clientReceived = << >>
  /\ clientLen = 0 /\ clientChecksum = 0 /\ clientReceivedTime = U32Zero
  /\ clientI = 0 /\ clientResult = << >> /\ clientLog = << >> /\ air = << >>

\* no bit of the buffer was flipped
NoFlip == [byte |-> 0, bit |-> 0]

CodecOff ==
  /\ codecPc = "off" /\ codecIn = << >> /\ codecBuf = << >> /\ codecOut = << >>
  /\ codecFlip = NoFlip /\ codecRuns = 0 /\ codecTarget = << >>
  /\ codecFixed = << >>

\* WakeUpCoordinator(SENDER) and begin(interval_ms, wake_window_ms) on the sender,
\* WakeUpCoordinator(RECEIVER) and begin() on the listener
Init ==
  /\ senderState = IDLE
  /\ cycleInterval \in CycleIntervals
  /\ wakeWindow \in WakeWindows
  /\ bootMillis \in BootValues
  /\ clock = 0
  /\ lastCycleStartTime = bootMillis       \* _lastCycleStartTime = millis();
  /\ packetCounter = U32Zero
  /\ radio = "standby"
  /\ cadPending = FALSE
  /\ txPending = FALSE
  /\ sendLog = << >>
  /\ cyc = NoCycle
  /\ ev = "begin"
  /\ listening = TRUE                      \* Radio.Rx(0);
  /\ rxOutcome = "none"
  /\ rxStarts = 1                          \* the Radio.Rx(0) of begin()
  /\ rxPayload = << >>
  /\ rxPacket = TimerPacket_default
  /\ HostClientOff
  /\ CodecOff

Next ==
  \/ Run
  \/ OnCadDone(TRUE)
  \/ OnCadDone(FALSE)
  \/ OnTxDone
  \/ OnTxTimeout
  \/ Tick
  \/ OnRxDone
  \/ OnRxTimeout
  \/ OnRxError

Spec == Init /\ [][Next]_vars

\* the radio reports the end of a transmission, one way or the other
TxDelivered == OnTxDone \/ OnTxTimeout

\* the steps of the sender node alone
SenderNext ==
  \/ Run
  \/ OnCadDone(TRUE)
  \/ OnCadDone(FALSE)
  \/ OnTxDone
  \/ OnTxTimeout
  \/ Tick

\* the sender node on its own: loop() keeps calling run(), time passes, and a
\* transmission that was started ends in TxDone or TxTimeout; nothing is assumed
\* about CadDone
SpecFair ==
  /\ Init
  /\ [][SenderNext]_vars
  /\ WF_vars(Run)
  /\ WF_vars(Tick)
  /\ WF_vars(TxDelivered)

(***************************************************************************)
(* Claims about the broadcaster                                            *)
(***************************************************************************)
\* the states of a cycle that transmits, in order
FullCycle ==
  << IDLE, CAD_IN_PROGRESS, READY_TO_SEND, WAITING_FOR_TX_DONE, CYCLE_COMPLETE, IDLE >>

\* the states of a cycle that is given up
SkippedCycle == << IDLE, CAD_IN_PROGRESS, CYCLE_COMPLETE, IDLE >>

IsPrefix(s, t) == Len(s) <= Len(t) /\ \A i \in 1..Len(s) : s[i] = t[i]

\* true time since the cycle started is beyond the wake window
WindowOver == clock - cyc.startClock > wakeWindow

\* C1: in a cycle that run() started and in which every CadDone reported
\* activity, the state is never READY_TO_SEND or WAITING_FOR_TX_DONE, nothing is
\* sent, _packetCounter keeps the value it had at the cycle's start and the
\* states visited are IDLE, CAD_IN_PROGRESS, CYCLE_COMPLETE, IDLE in that order.
C1_NoSendWhileBusy ==
  (cyc.byRun /\ ~cyc.clear) =>
     /\ senderState \notin { READY_TO_SEND, WAITING_FOR_TX_DONE }
     /\ cyc.sends = 0
     /\ packetCounter = cyc.startCounter
     /\ IsPrefix(cyc.trace, SkippedCycle)

\* C1: in such a cycle a poll in CAD_IN_PROGRESS ends the cycle exactly when more
\* than wakeWindow ms have truly elapsed since the cycle's start, and a busy
\* CadDone never moves the state.
C1_PollEndsCycle ==
  (cyc.byRun /\ ~cyc.clear /\ senderState = CAD_IN_PROGRESS /\ ~cyc'.clear) =>
     /\ ev' = "run" =>
          senderState' = (IF WindowOver THEN CYCLE_COMPLETE ELSE CAD_IN_PROGRESS)
     /\ ev' # "run" => senderState' = CAD_IN_PROGRESS

\* C1: the all-busy cycle
C1_AllBusyCycle == [] C1_NoSendWhileBusy /\ [][C1_PollEndsCycle]_vars

\* C1 witness: a cycle started by run() saw a busy CadDone, no clear one, and
\* was ended by the poll
C1_Witness ==
  /\ cyc.byRun /\ cyc.busy /\ ~cyc.clear
  /\ senderState = CYCLE_COMPLETE /\ ev = "run"

\* C2: in a cycle in which a CadDone reported a clear channel before the wake
\* window expired, the states visited are a prefix of IDLE, CAD_IN_PROGRESS,
\* READY_TO_SEND, WAITING_FOR_TX_DONE, CYCLE_COMPLETE, IDLE, Radio.Send is
\* called once (when WAITING_FOR_TX_DONE is entered) and _packetCounter is the
\* value at the cycle's start plus the number of sends.
C2_ClearCycle ==
  (cyc.byRun /\ cyc.clearInWindow) =>
     /\ IsPrefix(cyc.trace, FullCycle)
     /\ cyc.sends = (IF Len(cyc.trace) >= 4 THEN 1 ELSE 0)
     /\ packetCounter = U32Add(cyc.startCounter, cyc.sends)

\* C2 witness: such a cycle has come back to IDLE
C2_Witness ==
  /\ cyc.byRun /\ cyc.clearInWindow /\ cyc.busy
  /\ cyc.trace = FullCycle /\ cyc.sends = 1

\* C3: every buffer handed to Radio.Send is the encoding of the packet that was
\* composed, its last byte is the XOR of the bytes before it, and a listener
\* that gets the buffer unmodified accepts it.
C3_SentBufferValid ==
  \A i \in DOMAIN sendLog :
     /\ sendLog[i].buffer = TimerPacket_serialize(sendLog[i].packet)
     /\ sendLog[i].buffer[PACKET_SIZE] = XorBytes(sendLog[i].buffer, PACKET_SIZE - 1)
     /\ RxDecision(sendLog[i].buffer, Len(sendLog[i].buffer)).outcome = "valid"

(***************************************************************************)
(* The request/acknowledge round: WakeUpCoordination::hostCoordinate and   *)
(* clientCoordinate.  The two loops are processes; the blocking radio      *)
(* calls return in separate steps, and time passes between the steps.      *)
(***************************************************************************)
\* Milliseconds of true time the round is followed.
MaxRoundClock == 1500

\* Clock advances between two steps of the round (ms).
RoundTickSteps == {250}

\* time an acknowledgment byte is on the air, added to the delay(225) before it
AckAirTimes == {25}

\* messageInterval values of the host: the literal 10 of the working
\* coordination, and 0 as the smallest argument of the 7-26-24 coordinate()
HostIntervals == {0, 10}

\* values time(NULL) returns on the host
WallTimes == { << 4660, 26276, 0, 0 >>, << 4661, 26276, 0, 0 >> }

\* time(NULL) on the host: whole seconds, advancing with the millisecond counter
HostTime == << 4660 + (clock \div 1000), 26276, 0, 0 >>

\* values of millis() when coordinate() is entered
EntryMillis == { U32Zero, U32(65535, 65536 - 500) }

\* cadence of the host's transmissions (ms)
RESEND_MS == 1100
\* waitTime and sleepState the host puts in every packet
HOST_WAIT_TIME == 5
HOST_SLEEP_STATE == 1
\* repetitions of the acknowledgment and the delay before each (ms)
ACK_COUNT == 5
ACK_DELAY_MS == 225

\* the Timer object the caller passes in, before the round changes it
CallerTimer == Timer_new(<< 1, 0, 0, 0 >>, 7, 5, 1)

\* radio.receive(buffer, len): the frame's bytes, at most len of them, replace
\* the head of the buffer; the rest of the buffer keeps its contents
ReceiveInto(buffer, frame) ==
  [i \in 1..Len(buffer) |-> IF i <= Len(frame) THEN frame[i] ELSE buffer[i]]

\* a one-byte frame of another sender in range: its byte equals the checksum
\* byte of the packet this host composes at the first of WallTimes with interval 10
OtherSenderFrame ==
  << Timer_serialize(Timer_new(<< 4660, 26276, 0, 0 >>, 10, HOST_WAIT_TIME,
                               HOST_SLEEP_STATE))[DATA_SIZE] >>

\* frames of other origin the host may receive
HostNoise == { << 0 >>, OtherSenderFrame }

\* what the host's radio may deliver: the acknowledgment last put on the air,
\* tagged with the transmission it answers, or a frame of other origin
HostFrames ==
  (IF air.toHost = << >> THEN {}
   ELSE { [frame |-> air.toHost, kind |-> "ack", of |-> air.ackOf] })
  \cup { [frame |-> n, kind |-> "other", of |-> 0] : n \in HostNoise }

\* what the client's radio may deliver while frame f is on the air: f itself,
\* f with its checksum byte XORed with 0xFF, f with a bit of its first byte
\* flipped, and a one-byte frame that carries f's first byte
ClientFrames(f) ==
  IF f = << >> THEN {}
  ELSE { f,
         [f EXCEPT ![DATA_SIZE] = Xor(@, 255)],
         [f EXCEPT ![1] = Xor(@, 1)],
         << f[1] >> }

\* if (millis() - lastSendTime >= 1100) { compose, serialize, radio.transmit }
HostPoll ==
  /\ hostPc = "check"
  /\ IF U32GE(U32Sub(millis, lastSendTime), U32FromNat(RESEND_MS))
     THEN \E currentTime \in { HostTime }, delivered \in BOOLEAN :
            LET t == Timer_new(currentTime, hostInterval, HOST_WAIT_TIME,
                               HOST_SLEEP_STATE)
            IN  /\ hostTimer' = t                   \* timer = Timer(...)
                /\ hostData' = Timer_serialize(t)   \* timer.serialize(data)
                /\ air' = IF delivered
                          THEN [air EXCEPT !.toClient = Timer_serialize(t),
                                           !.seq = hostLog.sends + 1]
                          ELSE air
                /\ hostLog' = [hostLog EXCEPT
                                 !.sends = @ + 1,
                                 !.tx = Append(@, [at |-> clock,
                                                   data |-> Timer_serialize(t)])]
                /\ hostPc' = "sent"
     ELSE /\ hostPc' = "receive"
          /\ UNCHANGED << hostTimer, hostData, air, hostLog >>
  /\ UNCHANGED << hostInterval, lastSendTime, lastSentMessage, hostReceived, hostResult,
                  clientPc, clientTimer, clientReceived, clientLen, clientChecksum,
                  clientReceivedTime, clientI, clientResult, clientLog, clock,
                  bootMillis, ev, senderVars, cvars >>

\* HostRecord without lastSentMessage.checksum = data[DATA_SIZE - 1]
HostRecord_StaleChecksum ==
  /\ hostPc = "sent"
  /\ lastSentMessage' = [sendTime |-> millis, checksum |-> lastSentMessage.checksum]
  /\ lastSendTime' = millis
  /\ hostLog' = [hostLog EXCEPT !.recordedAt = clock]
  /\ hostPc' = "receive"
  /\ UNCHANGED << hostInterval, hostTimer, hostData, hostReceived, hostResult, air,
                  clientPc, clientTimer, clientReceived, clientLen, clientChecksum,
                  clientReceivedTime, clientI, clientResult, clientLog, clock,
                  bootMillis, ev, senderVars, cvars >>

\* after radio.transmit returned: lastSentMessage and lastSendTime are set
HostRecord ==
  /\ hostPc = "sent"
  /\ lastSentMessage' = [sendTime |-> millis, checksum |-> hostData[DATA_SIZE]]
  /\ lastSendTime' = millis
  /\ hostLog' = [hostLog EXCEPT !.recordedAt = clock]
  /\ hostPc' = "receive"
  /\ UNCHANGED << hostInterval, hostTimer, hostData, hostReceived, hostResult, air,
                  clientPc, clientTimer, clientReceived, clientLen, clientChecksum,
                  clientReceivedTime, clientI, clientResult, clientLog, clock,
                  bootMillis, ev, senderVars, cvars >>

\* SleepDuration with the elapsed milliseconds rounded up to whole seconds
SleepDuration_RoundUp(messageInterval, since) ==
  U32Sub(U32FromNat(messageInterval),
         U32FromNat(U32Div1000(U32Add(U32Sub(millis, since), 999))))

\* unsigned long sleepDuration = timer.getMessageInterval() - timeSinceSent
SleepDuration(messageInterval, since) ==
  U32Sub(U32FromNat(messageInterval), U32FromNat(U32Div1000(U32Sub(millis, since))))

\* radio.receive(receivedData, sizeof(receivedData)) returned; on a first byte
\* equal to lastSentMessage.checksum the sleep duration is returned, otherwise
\* delay(1) and the loop goes round
HostReceive ==
  /\ hostPc = "receive"
  /\ \/ /\ hostPc' = "check"               \* state != RADIOLIB_ERR_NONE
        /\ UNCHANGED << hostReceived, hostResult, hostLog, air >>
     \/ \E f \in HostFrames :
          LET data == ReceiveInto(hostReceived, f.frame)
              receivedChecksum == data[1]
          IN  /\ hostReceived' = data
              /\ air' = air
              /\ IF receivedChecksum = lastSentMessage.checksum
                 THEN /\ hostResult' = SleepDuration(hostTimer.messageInterval,
                                                     lastSentMessage.sendTime)
                      /\ hostLog' = [hostLog EXCEPT
                                       !.returnedAt = clock,
                                       !.accepted = [kind |-> f.kind, of |-> f.of]]
                      /\ hostPc' = "returned"
                 ELSE /\ hostPc' = "check"
                      /\ UNCHANGED << hostResult, hostLog >>
  /\ UNCHANGED << hostInterval, hostTimer, lastSendTime, lastSentMessage, hostData,
                  clientPc, clientTimer, clientReceived, clientLen, clientChecksum,
                  clientReceivedTime, clientI, clientResult, clientLog, clock,
                  bootMillis, ev, senderVars, cvars >>

\* ClientReceive without the comparison of the two checksums
ClientReceive_NoCheck ==
  /\ clientPc = "receive"
  /\ \/ /\ clientPc' = "delay"             \* state != RADIOLIB_ERR_NONE
        /\ UNCHANGED << clientTimer, clientReceived, clientLen,
                        clientChecksum, clientReceivedTime, clientI, clientLog, air >>
     \/ \E frame \in ClientFrames(air.toClient) :
          LET data == ReceiveInto(clientReceived, frame)
              receivedTimer == Timer_fromData(data)
              receivedChecksum == data[DATA_SIZE]
              calculatedChecksum == XorBytes(data, DATA_SIZE - 1)
          IN  /\ clientReceived' = data
              /\ clientLen' = Len(frame)
              /\ air' = air
              /\ IF receivedChecksum = receivedChecksum
                 THEN /\ clientTimer' = receivedTimer      \* timer = receivedTimer
                      /\ clientReceivedTime' = millis
                      /\ clientChecksum' = receivedChecksum
                      /\ clientI' = 0
                      /\ clientLog' = [clientLog EXCEPT !.adoptedAt = clock,
                                                         !.adoptedSeq = air.seq]
                      /\ clientPc' = "ack"
                 ELSE /\ clientPc' = "delay"
                      /\ UNCHANGED << clientTimer, clientChecksum,
                                      clientReceivedTime, clientI, clientLog >>
  /\ UNCHANGED << clientResult, hostPc, hostInterval, hostTimer, lastSendTime,
                  lastSentMessage, hostData, hostReceived, hostResult, hostLog, clock,
                  bootMillis, ev, senderVars, cvars >>

\* radio.startReceive(); radio.receive(receivedData, sizeof(receivedData)) and the
\* check of what arrived; a buffer whose last byte is the XOR of the bytes
\* before it is adopted, anything else leads to the delay(1) that ends the loop body
ClientReceive ==
  /\ clientPc = "receive"
  /\ \/ /\ clientPc' = "delay"             \* state != RADIOLIB_ERR_NONE
        /\ UNCHANGED << clientTimer, clientReceived, clientLen,
                        clientChecksum, clientReceivedTime, clientI, clientLog, air >>
     \/ \E frame \in ClientFrames(air.toClient) :
          LET data == ReceiveInto(clientReceived, frame)
              receivedTimer == Timer_fromData(data)
              receivedChecksum == data[DATA_SIZE]
              calculatedChecksum == XorBytes(data, DATA_SIZE - 1)
          IN  /\ clientReceived' = data
              /\ clientLen' = Len(frame)
              /\ air' = air
              /\ IF receivedChecksum = calculatedChecksum
                 THEN /\ clientTimer' = receivedTimer      \* timer = receivedTimer
                      /\ clientReceivedTime' = millis
                      /\ clientChecksum' = receivedChecksum
                      /\ clientI' = 0
                      /\ clientLog' = [clientLog EXCEPT !.adoptedAt = clock,
                                                         !.adoptedSeq = air.seq]
                      /\ clientPc' = "ack"
                 ELSE /\ clientPc' = "delay"
                      /\ UNCHANGED << clientTimer, clientChecksum,
                                      clientReceivedTime, clientI, clientLog >>
  /\ UNCHANGED << clientResult, hostPc, hostInterval, hostTimer, lastSendTime,
                  lastSentMessage, hostData, hostReceived, hostResult, hostLog, clock,
                  bootMillis, ev, senderVars, cvars >>

\* delay(1) at the end of the loop body, then the next radio.startReceive()
ClientDelay ==
  /\ clientPc = "delay"
  /\ clientPc' = "receive"
  /\ UNCHANGED << clientTimer, clientReceived, clientLen, clientChecksum,
                  clientReceivedTime, clientI, clientResult, clientLog, air, hostPc,
                  hostInterval, hostTimer, lastSendTime, lastSentMessage, hostData,
                  hostReceived, hostResult, hostLog, clock, bootMillis, ev,
                  senderVars, cvars >>

\* one round of for (i = 0; i < 5; ++i): delay(225), then radio.transmit of the
\* one checksum byte; a failed transmission is only reported
ClientAck ==
  /\ clientPc = "ack"
  /\ clientI < ACK_COUNT
  /\ \E airTime \in AckAirTimes, sendOk \in BOOLEAN :
       /\ clock' = clock + ACK_DELAY_MS + airTime
       /\ air' = IF sendOk
                 THEN [air EXCEPT !.toHost = << clientChecksum >>,
                                  !.ackOf = clientLog.adoptedSeq]
                 ELSE air
       /\ clientLog' = [clientLog EXCEPT !.acks = Append(@, << clientChecksum >>),
                                          !.failed = @ \/ ~sendOk]
  /\ clientI' = clientI + 1
  /\ UNCHANGED << clientPc, clientTimer, clientReceived, clientLen, clientChecksum,
                  clientReceivedTime, clientResult, hostPc, hostInterval, hostTimer,
                  lastSendTime, lastSentMessage, hostData, hostReceived, hostResult,
                  hostLog, bootMillis, ev, senderVars, cvars >>

\* ClientReturn with the loop left one round early
ClientReturn_Early ==
  /\ clientPc = "ack"
  /\ clientI >= ACK_COUNT - 1
  /\ clientResult' = SleepDuration(clientTimer.messageInterval, clientReceivedTime)
  /\ clientLog' = [clientLog EXCEPT !.returnedAt = clock]
  /\ clientPc' = "returned"
  /\ UNCHANGED << clientTimer, clientReceived, clientLen, clientChecksum,
                  clientReceivedTime, clientI, air, hostPc, hostInterval, hostTimer,
                  lastSendTime, lastSentMessage, hostData, hostReceived, hostResult,
                  hostLog, clock, bootMillis, ev, senderVars, cvars >>

\* after the loop: meetingInterval = timer.getMessageInterval() - timeElapsed
ClientReturn ==
  /\ clientPc = "ack"
  /\ clientI >= ACK_COUNT
  /\ clientResult' = SleepDuration(clientTimer.messageInterval, clientReceivedTime)
  /\ clientLog' = [clientLog EXCEPT !.returnedAt = clock]
  /\ clientPc' = "returned"
  /\ UNCHANGED << clientTimer, clientReceived, clientLen, clientChecksum,
                  clientReceivedTime, clientI, air, hostPc, hostInterval, hostTimer,
                  lastSendTime, lastSentMessage, hostData, hostReceived, hostResult,
                  hostLog, clock, bootMillis, ev, senderVars, cvars >>

\* the millisecond counter advances during the round
RoundTick ==
  /\ hostPc # "returned" \/ clientPc # "returned"
  /\ \E d \in RoundTickSteps : clock + d <= MaxRoundClock /\ clock' = clock + d
  /\ UNCHANGED << hvars, senderVars, bootMillis, ev, cvars >>

\* the broadcaster and the listener take no part in the round
SenderOff ==
  /\ senderState = IDLE /\ cycleInterval = 0 /\ wakeWindow = 0
  /\ lastCycleStartTime = U32Zero /\ packetCounter = U32Zero /\ radio = "off"
  /\ cadPending = FALSE /\ txPending = FALSE /\ sendLog = << >> /\ cyc = NoCycle
  /\ listening = FALSE /\ rxOutcome = "none" /\ rxStarts = 0 /\ rxPayload = << >>
  /\ rxPacket = TimerPacket_default

\* what lastSentMessage may hold when hostCoordinate is entered: the constructor
\* does not set it
LeftoverMessages ==
  { [sendTime |-> U32Zero, checksum |-> 0], [sendTime |-> U32(1, 0), checksum |-> 7] }

\* what the client's receivedData, which is not initialised, may hold before the
\* first receive: zeros, or zeros with a last byte of 0x34
FreshBuffers ==
  { [i \in 1..DATA_SIZE |-> 0], [i \in 1..DATA_SIZE |-> IF i = DATA_SIZE THEN 52 ELSE 0] }

\* coordinate(timer, TRUE, ...) on the host and coordinate(timer, FALSE, ...) on
\* the client have just been called
RoundInit ==
  /\ hostPc = "check"
  /\ hostInterval \in HostIntervals
  /\ hostTimer = CallerTimer
  /\ lastSendTime = U32Zero                \* unsigned long lastSendTime = 0;
  /\ lastSentMessage \in LeftoverMessages
  /\ hostData = [i \in 1..DATA_SIZE |-> 0]
  /\ hostReceived = [i \in 1..DATA_SIZE |-> 0]
  /\ hostResult = U32Zero
  /\ hostLog = [sends |-> 0, recordedAt |-> 0, returnedAt |-> 0, tx |-> << >>,
                accepted |-> [kind |-> "none", of |-> 0]]
  /\ clientPc = "receive"
  /\ clientTimer = CallerTimer
  /\ clientReceived \in FreshBuffers
  /\ clientLen = 0
  /\ clientChecksum = 0
  /\ clientReceivedTime = U32Zero          \* unsigned long receivedTime = 0;
  /\ clientI = 0
  /\ clientResult = U32Zero
  /\ clientLog = [acks |-> << >>, failed |-> FALSE, adoptedAt |-> 0, adoptedSeq |-> 0,
                  returnedAt |-> 0]
  /\ air = [toClient |-> << >>, toHost |-> << >>, seq |-> 0, ackOf |-> 0]
  /\ bootMillis \in EntryMillis
  /\ clock = 0
  /\ ev = "coordinate"
  /\ SenderOff
  /\ CodecOff

HostStep == HostPoll \/ HostRecord \/ HostReceive
ClientStep == ClientReceive \/ ClientDelay \/ ClientAck \/ ClientReturn

RoundNext ==
  \/ HostPoll
  \/ HostRecord
  \/ HostReceive
  \/ ClientReceive
  \/ ClientDelay
  \/ ClientAck
  \/ ClientReturn
  \/ RoundTick

SpecRound == RoundInit /\ [][RoundNext]_vars

\* the two loops keep running; whether frames arrive is up to the radio
SpecRoundFair ==
  /\ SpecRound
  /\ WF_vars(HostStep)
  /\ WF_vars(ClientStep)
  /\ WF_vars(RoundTick)

(***************************************************************************)
(* Claims about the request/acknowledge round                              *)
(***************************************************************************)
\* a 32-bit value is at most the natural number n
U32AtMost(a, n) == U32GE(U32FromNat(n), a)

\* C4: the sleep duration that hostCoordinate or clientCoordinate returns is
\* never greater than the messageInterval of the timer it is computed from.
C4_SleepWithinInterval ==
  /\ hostPc = "returned" => U32AtMost(hostResult, hostTimer.messageInterval)
  /\ clientPc = "returned" => U32AtMost(clientResult, clientTimer.messageInterval)

\* C5: coordinate() returns, on the host and on the client, whatever the radio
\* delivers.
C5_CoordinateReturns == <>(hostPc = "returned") /\ <>(clientPc = "returned")

\* whole seconds of true time between the host's record of its last
\* transmission and its return
HostElapsedSeconds == (hostLog.returnedAt - hostLog.recordedAt) \div 1000

\* C6: a host that has transmitted and returns, returns messageInterval minus
\* the whole seconds elapsed since the record of its last transmission.
C6_HostReturnsDifference ==
  (hostPc = "returned" /\ hostLog.sends > 0) =>
     /\ HostElapsedSeconds <= hostTimer.messageInterval
     /\ hostResult = U32FromNat(hostTimer.messageInterval - HostElapsedSeconds)

\* C6: a received frame whose first byte differs from the recorded checksum
\* does not end the round.
C6_MismatchKeepsRound ==
  (hostPc = "receive" /\ hostReceived'[1] # lastSentMessage.checksum) =>
     hostPc' # "returned"

\* C6: the host's result
C6_HostResult == [] C6_HostReturnsDifference /\ [][C6_MismatchKeepsRound]_vars

\* the last byte of a buffer is the XOR of the bytes before it
ChecksumMatches(data) == data[DATA_SIZE] = XorBytes(data, DATA_SIZE - 1)

\* C7: a step of the receiving client that leaves a buffer whose last byte
\* differs from the XOR of the bytes before it transmits nothing, leaves the
\* caller's timer alone, does not return and goes on to the next receive.
C7_InvalidStep ==
  (clientPc = "receive" /\ clientPc' # "receive" /\ ~ChecksumMatches(clientReceived')) =>
     /\ clientTimer' = clientTimer
     /\ clientLog' = clientLog
     /\ clientResult' = clientResult
     /\ clientPc' = "delay"

\* C7: the client and an invalid packet
C7_InvalidIgnored == [][C7_InvalidStep]_vars

\* C7 witness: the client got a full-size frame whose checksum byte is the
\* right one XORed with 0xFF, and is receiving again with nothing sent
C7_Witness ==
  /\ clientPc = "receive" /\ clientLen = DATA_SIZE
  /\ clientReceived[DATA_SIZE] = Xor(XorBytes(clientReceived, DATA_SIZE - 1), 255)
  /\ clientLog.acks = << >> /\ clientTimer = CallerTimer

\* C8: the client transmits nothing while it is receiving; once it acknowledges
\* the caller's timer already holds the interval, wait time and sleep state of
\* the buffer, every transmission is the one checksum byte of the buffer, the
\* number of transmissions is the loop counter, and it has returned only after
\* five of them, failed ones included.
C8_AdoptThenFiveAcks ==
  /\ clientPc \in { "receive", "delay" } => clientLog.acks = << >>
  /\ clientPc \in { "ack", "returned" } =>
       /\ clientTimer.messageInterval = U16FromBytes(clientReceived, SIZEOF_TIME_T)
       /\ clientTimer.waitTime = U16FromBytes(clientReceived, SIZEOF_TIME_T + 2)
       /\ clientTimer.sleepState = clientReceived[SIZEOF_TIME_T + 5]
       /\ clientTimer.currentTime = TimeFromBytes(clientReceived)
       /\ Len(clientLog.acks) = clientI
       /\ clientI <= ACK_COUNT
       /\ \A i \in DOMAIN clientLog.acks :
            clientLog.acks[i] = << clientReceived[DATA_SIZE] >>
  /\ clientPc = "returned" => Len(clientLog.acks) = ACK_COUNT

\* C8 witness: the client has returned and one of its transmissions had failed
C8_Witness ==
  clientPc = "returned" /\ clientLog.failed /\ Len(clientLog.acks) = ACK_COUNT

\* C9: the client adopts a schedule only from a frame of DATA_SIZE bytes.
C9_ShortFrameRejected ==
  clientPc \in { "ack", "returned" } => clientLen = DATA_SIZE

(***************************************************************************)
(* TimerPacket of the router (HELTEC_Router): sourceId(1) destinationId(1) *)
(* packetId(4) interval(2) window(2) checksum(1)                           *)
(***************************************************************************)
\* static const size_t PACKET_SIZE = 1 + 1 + 4 + 2 + 2 + 1
ROUTER_PACKET_SIZE == 1 + 1 + 4 + 2 + 2 + 1

\* calculateChecksum(): XOR of the two one-byte members and of every byte of
\* packetId, messageInterval_s and wakeWindow_s
RouterPacket_calculateChecksum(p) ==
  LET idBytes == U32Bytes(p.packetId)
      intervalBytes == U16Bytes(p.messageInterval_s)
      windowBytes == U16Bytes(p.wakeWindow_s)
      chk2 == Xor(Xor(0, p.sourceId), p.destinationId)
      chk6 == Xor(chk2, XorBytes(idBytes, 4))
      chk8 == Xor(chk6, XorBytes(intervalBytes, 2))
  IN  Xor(chk8, XorBytes(windowBytes, 2))

\* TimerPacket()
RouterPacket_default ==
  [sourceId |-> 0, destinationId |-> 0, packetId |-> U32Zero,
   messageInterval_s |-> 0, wakeWindow_s |-> 0, checksum |-> 0]

\* recomputeChecksum() that leaves the checksum member as it is
RouterPacket_recomputeChecksum_Keep(p) == [p EXCEPT !.checksum = p.checksum]

\* recomputeChecksum(): this->checksum = calculateChecksum()
RouterPacket_recomputeChecksum(p) ==
  [p EXCEPT !.checksum = RouterPacket_calculateChecksum(p)]

\* TimerPacket(src, dest, id, interval, window): recomputeChecksum() sets the
\* checksum member
RouterPacket_new(src, dest, id, interval, window) ==
  LET p == [sourceId |-> src, destinationId |-> dest, packetId |-> id,
            messageInterval_s |-> interval, wakeWindow_s |-> window, checksum |-> 0]
  IN  [p EXCEPT !.checksum = RouterPacket_calculateChecksum(p)]

\* RouterPacket_serialize with messageInterval_s and wakeWindow_s exchanged
RouterPacket_serialize_Swapped(p) ==
  << p.sourceId, p.destinationId >> \o U32Bytes(p.packetId)
    \o U16Bytes(p.wakeWindow_s) \o U16Bytes(p.messageInterval_s)
    \o << p.checksum >>

\* serialize(buffer): the six members copied in order
RouterPacket_serialize(p) ==
  << p.sourceId, p.destinationId >> \o U32Bytes(p.packetId)
    \o U16Bytes(p.messageInterval_s) \o U16Bytes(p.wakeWindow_s)
    \o << p.checksum >>

\* deserialize(buffer) on object p: the payload members are overwritten first,
\* the checksum member only when the received checksum matches
RouterPacket_deserialize(p, buffer) ==
  LET q == [p EXCEPT !.sourceId = buffer[1],
                     !.destinationId = buffer[2],
                     !.packetId = U32FromBytes(buffer, 2),
                     !.messageInterval_s = U16FromBytes(buffer, 6),
                     !.wakeWindow_s = U16FromBytes(buffer, 8)]
      receivedChecksum == buffer[ROUTER_PACKET_SIZE]
  IN  IF receivedChecksum = RouterPacket_calculateChecksum(q)
      THEN [ok |-> TRUE, pkt |-> [q EXCEPT !.checksum = receivedChecksum]]
      ELSE [ok |-> FALSE, pkt |-> q]

(***************************************************************************)
(* Codec runs: a packet object is built by its constructor, serialized     *)
(* into a buffer, and the buffer is deserialized into a fresh object       *)
(***************************************************************************)
\* number of times a buffer is decoded
MaxDecodes == 3

\* field values the runs are made with
CodecTimes == WallTimes \cup { << 0, 0, 0, 0 >>, << 65535, 65535, 65535, 32767 >> }
CodecU16 == { 0, 10, 65535 }
CodecSleepStates == { 0, 3, 7, 255 }
CodecIds == { U32Zero, U32(258, 772), U32Max }
CodecNodes == { 0, 1, 255 }

\* the objects that are encoded, tagged with the class they belong to
CodecInputs ==
  { [variant |-> "Timer", pkt |-> Timer_new(t, i, w, s)] :
      t \in CodecTimes, i \in CodecU16, w \in { 0, 65535 }, s \in CodecSleepStates }
  \cup
  { [variant |-> "SenderPacket", pkt |-> TimerPacket_new(id, i, w)] :
      id \in CodecIds, i \in CodecU16, w \in CodecU16 }
  \cup
  { [variant |-> "RouterPacket", pkt |-> RouterPacket_new(src, dst, id, i, w)] :
      src \in CodecNodes, dst \in { 0, 255 }, id \in CodecIds,
      i \in { 0, 65535 }, w \in { 10, 65535 } }

\* p.serialize(buffer)
CodecSerialize ==
  /\ codecPc = "built"
  /\ codecBuf' = CASE codecIn.variant = "Timer" -> Timer_serialize(codecIn.pkt)
                   [] codecIn.variant = "SenderPacket" -> TimerPacket_serialize(codecIn.pkt)
                   [] codecIn.variant = "RouterPacket" -> RouterPacket_serialize(codecIn.pkt)
  /\ codecPc' = "serialized"
  /\ UNCHANGED << codecIn, codecOut, codecFlip, codecRuns, codecTarget, codecFixed,
                  bvars, hvars >>

\* buffers of the class's size that come from elsewhere: all bytes 0x00, all
\* bytes 0xFF, and the bytes 1, 2, 3, ...
GivenBuffers(variant) ==
  LET size == CASE variant = "Timer" -> DATA_SIZE
                [] variant = "SenderPacket" -> PACKET_SIZE
                [] variant = "RouterPacket" -> ROUTER_PACKET_SIZE
  IN  { [i \in 1..size |-> 0], [i \in 1..size |-> 255], [i \in 1..size |-> i] }

\* instead of a buffer the object was serialized into, a given buffer is decoded
CodecGiven ==
  /\ codecPc = "built"
  /\ codecBuf' \in GivenBuffers(codecIn.variant)
  /\ codecPc' = "given"
  /\ UNCHANGED << codecIn, codecOut, codecFlip, codecRuns, codecTarget, codecFixed,
                  bvars, hvars >>

\* the buffer with one bit of one byte inverted
FlipBit(buffer, byte, bit) == [buffer EXCEPT ![byte] = Xor(@, 2 ^ bit)]

\* on the way from the encoder to the decoder one bit of the buffer is inverted
CodecCorrupt ==
  /\ codecPc = "serialized"
  /\ \E byte \in 1..Len(codecBuf), bit \in 0..7 :
       /\ codecBuf' = FlipBit(codecBuf, byte, bit)
       /\ codecFlip' = [byte |-> byte, bit |-> bit]
  /\ codecPc' = "corrupted"
  /\ UNCHANGED << codecIn, codecOut, codecRuns, codecTarget, codecFixed, bvars, hvars >>

\* target.deserialize(buffer) of the class the run is made with
CodecDecode(variant, target, buffer) ==
  CASE variant = "Timer" ->
         LET r == Timer_deserialize(target, buffer)
         IN  [ok |-> r.ok, pkt |-> r.timer]
    [] variant = "SenderPacket" -> TimerPacket_deserialize(target, buffer)
    [] variant = "RouterPacket" -> RouterPacket_deserialize(target, buffer)

\* the default-constructed object of each class
CodecDefault(variant) ==
  CASE variant = "Timer" -> Timer_zero
    [] variant = "SenderPacket" -> TimerPacket_default
    [] variant = "RouterPacket" -> RouterPacket_default

\* an object of each class that holds values of its own
CodecOther(variant) ==
  CASE variant = "Timer" -> Timer_new(<< 9, 9, 9, 9 >>, 77, 88, 2)
    [] variant = "SenderPacket" -> TimerPacket_new(U32(7, 7), 77, 88)
    [] variant = "RouterPacket" -> RouterPacket_new(9, 8, U32(7, 7), 77, 88)

\* the objects a decode is called on: a default-constructed one, one that holds
\* other values, and the one the previous decode has filled
CodecTargets ==
  { CodecDefault(codecIn.variant), CodecOther(codecIn.variant) }
    \cup (IF codecRuns > 0 THEN { codecOut.pkt } ELSE {})

\* q.deserialize(buffer), for the first time or again; a given buffer that was
\* decoded is "decoded", a buffer of the encoder "deserialized"
CodecDeserialize ==
  /\ codecPc \in { "serialized", "corrupted", "deserialized", "given", "decoded" }
  /\ codecRuns < MaxDecodes
  /\ \E q \in CodecTargets :
       /\ codecTarget' = q
       /\ codecOut' = CodecDecode(codecIn.variant, q, codecBuf)
  /\ codecRuns' = codecRuns + 1
  /\ codecPc' = IF codecPc \in { "given", "decoded" } THEN "decoded" ELSE "deserialized"
  /\ UNCHANGED << codecIn, codecBuf, codecFlip, codecFixed, bvars, hvars >>

\* the repair path of the router's TimerPacket: after deserialize(buffer), whatever
\* it returned, recomputeChecksum() and serialize(buffer) are called on the object
CodecRepair ==
  /\ codecPc \in { "deserialized", "decoded" }
  /\ codecIn.variant = "RouterPacket"
  /\ codecFixed' = RouterPacket_serialize(RouterPacket_recomputeChecksum(codecOut.pkt))
  /\ codecPc' = "repaired"
  /\ UNCHANGED << codecIn, codecBuf, codecOut, codecFlip, codecRuns, codecTarget,
                  bvars, hvars >>

CodecInit ==
  /\ codecPc = "built"
  /\ codecIn \in CodecInputs
  /\ codecBuf = << >>
  /\ codecOut = << >>
  /\ codecFlip = NoFlip
  /\ codecRuns = 0
  /\ codecTarget = << >>
  /\ codecFixed = << >>
  /\ bootMillis = U32Zero /\ clock = 0 /\ ev = "codec"
  /\ SenderOff
  /\ HostClientOff

CodecNext ==
  \/ CodecSerialize
  \/ CodecGiven
  \/ CodecCorrupt
  \/ CodecDeserialize
  \/ CodecRepair

SpecCodec == CodecInit /\ [][CodecNext]_vars

(***************************************************************************)
(* Claims about the codecs                                                 *)
(***************************************************************************)
\* the checksum byte a decoded object would be sent with
CodecChecksum(variant, pkt) ==
  IF variant = "Timer" THEN Timer_serialize(pkt)[DATA_SIZE] ELSE pkt.checksum

\* C10: for the Timer, the broadcaster's TimerPacket and the router's
\* TimerPacket, deserializing the serialized object succeeds and yields an
\* object equal to the original in every field, the checksum included.
C10_RoundTrip ==
  (codecPc = "deserialized" /\ codecFlip = NoFlip) =>
    /\ codecOut.ok
    /\ codecOut.pkt = codecIn.pkt
    /\ CodecChecksum(codecIn.variant, codecOut.pkt) = codecBuf[Len(codecBuf)]
    /\ CodecChecksum(codecIn.variant, codecOut.pkt)
         = CodecChecksum(codecIn.variant, codecIn.pkt)

\* C10 witness: a router packet with distinct interval and window and the
\* largest packetId went through serialize and deserialize
C10_Witness ==
  /\ codecPc = "deserialized" /\ codecFlip = NoFlip
  /\ codecIn.variant = "RouterPacket"
  /\ codecIn.pkt.packetId = U32Max /\ codecIn.pkt.sourceId = 255
  /\ codecIn.pkt.messageInterval_s = 65535 /\ codecIn.pkt.wakeWindow_s = 10
  /\ codecOut.ok /\ Len(codecBuf) = ROUTER_PACKET_SIZE

\* C11: a buffer that was validly encoded and then had exactly one bit inverted
\* in a byte other than its checksum byte is refused by deserialize, for the
\* Timer, the broadcaster's TimerPacket and the router's TimerPacket.
C11_SingleBitDetected ==
  (codecPc = "deserialized" /\ codecFlip # NoFlip /\ codecFlip.byte < Len(codecBuf)) =>
     ~codecOut.ok

\* C11 witness: the most significant bit of the last payload byte of a
\* broadcaster packet was inverted and the buffer was decoded
C11_Witness ==
  /\ codecPc = "deserialized" /\ codecIn.variant = "SenderPacket"
  /\ codecFlip = [byte |-> PACKET_SIZE - 1, bit |-> 7]
  /\ ~codecOut.ok

(***************************************************************************)
(* Claims about the listener                                               *)
(***************************************************************************)
\* the handlers of the listener's radio notifications
RxEvents == { "rx_done", "rx_timeout", "rx_error" }

\* C12: the listener is in receive mode after every handler, and a handler of
\* a receive notification (rx-done whatever the length and the checksum, timeout,
\* error) has called Radio.Rx(0) exactly once.
C12_ListenerResumes ==
  /\ listening
  /\ ev \in RxEvents => rxStarts = 1

\* C12 witness: a payload of the right size with a wrong checksum was handled
C12_Witness ==
  /\ ev = "rx_done" /\ rxOutcome = "checksum" /\ listening /\ rxStarts = 1

\* the last byte of a payload of PACKET_SIZE bytes is the XOR of the others
PayloadChecksumValid(payload) ==
  payload[PACKET_SIZE] = XorBytes(payload, PACKET_SIZE - 1)

\* C13: a step of OnRxDone decodes nothing when the payload's length is not
\* PACKET_SIZE, changes the fields it shows only when the length is PACKET_SIZE
\* and the checksum validates, and the fields shown are then those of the payload.
C13_SurfaceStep ==
  ev' = "rx_done" =>
    /\ Len(rxPayload') # PACKET_SIZE => (rxOutcome' = "size" /\ rxPacket' = rxPacket)
    /\ (Len(rxPayload') = PACKET_SIZE /\ ~PayloadChecksumValid(rxPayload')) =>
          (rxOutcome' = "checksum" /\ rxPacket' = rxPacket)
    /\ rxOutcome' = "valid" =>
          /\ Len(rxPayload') = PACKET_SIZE /\ PayloadChecksumValid(rxPayload')
          /\ TimerPacket_serialize(rxPacket') = rxPayload'

\* C13: what the listener surfaces
C13_SurfacesOnlyValid == [][C13_SurfaceStep]_vars

\* C13 witness: after a valid packet was shown, a payload one byte longer with
\* the same first bytes was handled and the fields shown are still the old ones
C13_Witness ==
  /\ ev = "rx_done" /\ rxOutcome = "size" /\ Len(rxPayload) = PACKET_SIZE + 1
  /\ rxPacket = ForeignPacket

(***************************************************************************)
(* Claims about the broadcaster's state cell                               *)
(***************************************************************************)
\* the handlers of the sender's radio notifications
NotificationEvents == { "cad_busy", "cad_clear", "tx_done", "tx_timeout" }

\* C14: senderState changes only in OnCadDone, OnTxDone and OnTxTimeout; a
\* call of run() leaves it as it was.
C14_PollOnlyReads ==
  [][(senderState' # senderState) => ev' \in NotificationEvents]_vars

\* the model follows the clock far enough for the wake window of the current
\* cycle to expire
WindowCanExpire == \E d \in TickSteps : cyc.startClock + wakeWindow + d <= MaxClock

\* C15: whenever the broadcaster is not in IDLE it is in IDLE again later, with
\* or without CadDone notifications, provided run() keeps being called, time
\* passes and transmissions end in TxDone or TxTimeout.
C15_ReturnsToIdle ==
  (senderState # IDLE /\ (senderState = CAD_IN_PROGRESS => WindowCanExpire))
     ~> (senderState = IDLE)

\* C15 witness: a cycle that saw no CadDone at all is back in IDLE
C15_Witness ==
  /\ senderState = IDLE /\ cyc.byRun /\ ~cyc.busy /\ ~cyc.clear
  /\ cyc.trace = SkippedCycle

(***************************************************************************)
(* The sender node and the host/client round side by side, for claims that *)
(* speak of both                                                           *)
(***************************************************************************)
BothInit == Init \/ RoundInit

BothNext ==
  \/ (radio # "off" /\ Next)
  \/ (hostPc # "off" /\ RoundNext)

SpecBoth == BothInit /\ [][BothNext]_vars

\* the host has recorded a transmission (lastSendTime and lastSentMessage.sendTime
\* are readings of millis())
HostRecorded ==
  hostPc # "off" /\ (hostLog.sends > 1 \/ (hostLog.sends = 1 /\ hostPc # "sent"))

\* C16: the unsigned differences the code computes are the true elapsed times:
\* since the cycle's start on the sender, since the recorded transmission on
\* the host, since the receipt on the client.
C16_ElapsedIsTrue ==
  /\ radio # "off" =>
       U32Sub(millis, lastCycleStartTime) = U32FromNat(clock - cyc.startClock)
  /\ HostRecorded =>
       /\ U32Sub(millis, lastSendTime) = U32FromNat(clock - hostLog.recordedAt)
       /\ U32Sub(millis, lastSentMessage.sendTime) = U32FromNat(clock - hostLog.recordedAt)
  /\ (HostRecorded /\ hostPc = "returned") =>
       hostResult = U32Sub(U32FromNat(hostTimer.messageInterval),
                           U32FromNat((hostLog.returnedAt - hostLog.recordedAt) \div 1000))
  /\ clientPc \in { "ack", "returned" } =>
       U32Sub(millis, clientReceivedTime) = U32FromNat(clock - clientLog.adoptedAt)
  /\ clientPc = "returned" =>
       clientResult = U32Sub(U32FromNat(clientTimer.messageInterval),
                             U32FromNat((clientLog.returnedAt - clientLog.adoptedAt) \div 1000))

\* C16: the decisions taken on these differences are those of the true elapsed
\* time: a poll in IDLE starts a cycle exactly when cycleInterval ms have passed,
\* a poll in CAD_IN_PROGRESS ends it exactly when more than wakeWindow ms have
\* passed, the host transmits again exactly when 1100 ms have passed.
C16_DecisionStep ==
  /\ (ev' = "run" /\ senderState = IDLE) =>
        (senderState' = CAD_IN_PROGRESS <=> clock - cyc.startClock >= cycleInterval)
  /\ (ev' = "run" /\ senderState = CAD_IN_PROGRESS) =>
        (senderState' = CYCLE_COMPLETE <=> clock - cyc.startClock > wakeWindow)
  /\ (HostRecorded /\ hostPc = "check" /\ hostPc' # "check") =>
        (hostPc' = "sent" <=> clock - hostLog.recordedAt >= RESEND_MS)

\* C16: elapsed times across the rollover of the millisecond counter
C16_RolloverSafe == [] C16_ElapsedIsTrue /\ [][C16_DecisionStep]_vars

\* C16 witness: the counter wrapped between the start of a cycle and the poll
\* that ended the cycle on the wake window
C16_Witness ==
  /\ radio # "off" /\ ev = "run" /\ senderState = CYCLE_COMPLETE /\ ~cyc.clear
  /\ U32Less(millis, lastCycleStartTime)

\* the coordinator's members besides the state cell
CoordinatorMembers == << cycleInterval, wakeWindow, lastCycleStartTime, packetCounter >>

\* C17: the poll that ends a cycle because the wake window expired leaves a
\* record in the coordinator's members (a count that has changed).
C17_SkipIsCounted ==
  [][(ev' = "run" /\ senderState = CAD_IN_PROGRESS /\ senderState' = CYCLE_COMPLETE)
        => CoordinatorMembers' # CoordinatorMembers]_vars

\* C18: however often a valid buffer is decoded, and whatever the object it is
\* decoded into held before, the decode succeeds and yields the values that a
\* decode into a default-constructed object yields.
C18_DecodeRepeatable ==
  (codecPc = "deserialized" /\ codecFlip = NoFlip) =>
     /\ codecOut.ok
     /\ codecOut = CodecDecode(codecIn.variant, CodecDefault(codecIn.variant), codecBuf)

\* C18 witness: a broadcaster packet was decoded for the third time, into an
\* object that held other values
C18_Witness ==
  /\ codecPc = "deserialized" /\ codecFlip = NoFlip /\ codecRuns = MaxDecodes
  /\ codecIn.variant = "SenderPacket" /\ codecTarget = CodecOther("SenderPacket")
  /\ codecOut.ok /\ codecOut.pkt # codecTarget

\* the edges of the cycle
CycleEdges ==
  { << IDLE, CAD_IN_PROGRESS >>, << CAD_IN_PROGRESS, READY_TO_SEND >>,
    << CAD_IN_PROGRESS, CYCLE_COMPLETE >>, << READY_TO_SEND, WAITING_FOR_TX_DONE >>,
    << WAITING_FOR_TX_DONE, CYCLE_COMPLETE >>, << CYCLE_COMPLETE, IDLE >> }

\* C19: whichever handler runs, a change of senderState follows an edge of the
\* cycle.
C19_EdgesOnly ==
  [][(senderState' # senderState) => << senderState, senderState' >> \in CycleEdges]_vars

\* the current cycle was ended by run() on the expiry of the wake window
EndedOnExpiry ==
  /\ cyc.byRun /\ Len(cyc.trace) >= 3
  /\ cyc.trace[2] = CAD_IN_PROGRESS /\ cyc.trace[3] = CYCLE_COMPLETE

\* C20: from the poll that ended a cycle on the expiry of the wake window until
\* the next cycle starts, the radio stays powered down, no channel sense is
\* started, nothing is sent and the state is CYCLE_COMPLETE or IDLE.
C20_EndedStaysEnded ==
  EndedOnExpiry =>
     /\ radio = "sleep"
     /\ senderState \in { CYCLE_COMPLETE, IDLE }
     /\ cyc.sends = 0

(***************************************************************************)
(* Claims about the acknowledgment the host accepts                        *)
(***************************************************************************)
\* C21: when the host has ended the round, the frame it accepted was an
\* acknowledgment sent by a client, and that acknowledgment answers the host's
\* latest transmission (the one whose record it computes the elapsed time from).
C21_AckCorrelated ==
  hostPc = "returned" =>
     /\ hostLog.sends > 0
     /\ hostLog.accepted.kind = "ack"
     /\ hostLog.accepted.of = hostLog.sends

\* C22: whenever hostCoordinate is about to take a frame from the radio and
\* compare it with lastSentMessage.checksum, and whenever it has returned, it has
\* transmitted a schedule packet in this call and recorded it in lastSentMessage,
\* whatever millis() was at entry and whatever lastSentMessage held before.
C22_TransmitsBeforeCompare ==
  hostPc \in { "receive", "returned" } =>
     /\ hostLog.sends > 0
     /\ lastSentMessage.checksum = hostData[DATA_SIZE]
     /\ hostData = hostLog.tx[Len(hostLog.tx)].data

(***************************************************************************)
(* Claims about the broadcaster's sequence counter and cycle starts        *)
(***************************************************************************)
\* C23: _packetCounter is the number of Radio.Send calls made so far, and the
\* i-th packet handed to Radio.Send carries the sequence id i - 1.
C23_CounterCountsSends ==
  /\ packetCounter = U32FromNat(Len(sendLog))
  /\ \A i \in DOMAIN sendLog : sendLog[i].packet.packetId = U32FromNat(i - 1)

\* C23: _packetCounter never decreases and changes only in the READY_TO_SEND
\* case of run(), by one, together with one Radio.Send; TxDone and TxTimeout
\* leave it alone.
C23_CounterStep ==
  /\ ~U32Less(packetCounter', packetCounter)
  /\ packetCounter' # packetCounter =>
       /\ ev' = "run" /\ senderState = READY_TO_SEND
       /\ packetCounter' = U32Add(packetCounter, 1)
       /\ Len(sendLog') = Len(sendLog) + 1
  /\ Len(sendLog') # Len(sendLog) => packetCounter' # packetCounter

\* C23: the sequence counter
C23_SequenceCounter == [] C23_CounterCountsSends /\ [][C23_CounterStep]_vars

\* C23 witness: two packets were sent, with the sequence ids 0 and 1, and the
\* second transmission ended in a timeout
C23_Witness ==
  /\ Len(sendLog) = 2 /\ packetCounter = U32FromNat(2)
  /\ sendLog[2].packet.packetId = U32FromNat(1)
  /\ ev = "tx_timeout"

\* C24: the step from IDLE to CAD_IN_PROGRESS is taken by run() only, only when
\* at least cycleInterval ms have truly elapsed since the previous cycle start
\* (since begin() for the first cycle); it sets _lastCycleStartTime to the
\* current millis() and requests a channel sense.
C24_StartStep ==
  (senderState = IDLE /\ senderState' = CAD_IN_PROGRESS) =>
     /\ ev' = "run"
     /\ clock - cyc.startClock >= cycleInterval
     /\ lastCycleStartTime' = millis'
     /\ cyc'.startClock = clock' /\ cyc'.index = cyc.index + 1
     /\ radio' = "cad" /\ cadPending'
     /\ sendLog' = sendLog

\* C24: the k-th cycle does not start before k * cycleInterval ms after begin(),
\* a cycle transmits at most one packet, and no more packets have been
\* transmitted than cycles have started, whatever the wake window.
C24_OnePerCycle ==
  /\ cyc.index * cycleInterval <= cyc.startClock
  /\ cyc.startClock <= clock
  /\ cyc.sends <= 1
  /\ Len(sendLog) <= cyc.index

\* C24: cycle starts and the packets per cycle
C24_CycleStarts == [] C24_OnePerCycle /\ [][C24_StartStep]_vars

\* C24 witness: with a wake window longer than the cycle interval, the second
\* cycle has started and each of the two cycles has transmitted its packet
C24_Witness ==
  /\ wakeWindow > cycleInterval
  /\ cyc.index = 2 /\ cyc.sends = 1 /\ Len(sendLog) = 2

\* the handlers of the end of a transmission
TxEndEvents == { "tx_done", "tx_timeout" }

\* C25: a step of OnTxDone and a step of OnTxTimeout lead from a state to the
\* same state: senderState is CYCLE_COMPLETE, the radio is powered down, and
\* _packetCounter, the cycle start time and every other member are as before.
C25_TxEndStep ==
  ev' \in TxEndEvents =>
     /\ senderState' = CYCLE_COMPLETE
     /\ radio' = "sleep"
     /\ ~txPending'
     /\ packetCounter' = packetCounter
     /\ lastCycleStartTime' = lastCycleStartTime
     /\ UNCHANGED << cycleInterval, wakeWindow, cadPending, sendLog, clock >>

\* C25: transmit-complete and transmit-timeout are handled alike
C25_TxEndsAlike == [][C25_TxEndStep]_vars

\* C25 witness: a transmission has ended in a timeout; the radio is powered down
\* and the packet counts as sent
C25_Witness ==
  /\ ev = "tx_timeout" /\ senderState = CYCLE_COMPLETE /\ radio = "sleep"
  /\ packetCounter = U32FromNat(1) /\ Len(sendLog) = 1

(***************************************************************************)
(* Claims about the host's transmissions and the schedule both sides hold  *)
(***************************************************************************)
\* the host's last transmission, as logged
LastTx == hostLog.tx[Len(hostLog.tx)]

\* C26: once a transmission has been recorded, lastSentMessage holds the last
\* byte of the buffer encoded for the latest transmission, delivered or not, and
\* a millis() reading taken after that transmission; any two consecutive
\* transmissions are at least 1100 ms apart.
C26_PendingSendIsLatest ==
  /\ (hostPc \in { "check", "receive", "returned" } /\ hostLog.sends > 0) =>
        /\ lastSentMessage.checksum = LastTx.data[DATA_SIZE]
        /\ LastTx.data = hostData /\ hostData = Timer_serialize(hostTimer)
        /\ hostLog.recordedAt >= LastTx.at
        /\ U32Sub(millis, lastSentMessage.sendTime) = U32FromNat(clock - hostLog.recordedAt)
  /\ Len(hostLog.tx) = hostLog.sends
  /\ \A i \in 2..Len(hostLog.tx) : hostLog.tx[i].at - hostLog.tx[i - 1].at >= RESEND_MS

\* C26: a pass through the top of the loop after a recorded transmission
\* transmits again exactly when 1100 ms have passed since the record, the
\* record of a transmission replaces lastSentMessage, and the host leaves the
\* loop only on a frame whose first byte is the recorded checksum.
C26_CadenceStep ==
  /\ (hostLog.sends > 0 /\ hostPc = "check" /\ hostPc' # "check") =>
        /\ hostPc' = "sent" <=> clock - hostLog.recordedAt >= RESEND_MS
        /\ hostPc' = "sent" => (hostLog'.sends = hostLog.sends + 1 /\ hostLog'.tx[Len(hostLog'.tx)].at = clock)
        /\ hostPc' # "sent" => (hostPc' = "receive" /\ hostLog' = hostLog)
  /\ (hostPc = "sent" /\ hostPc' # "sent") =>
        /\ lastSentMessage'.checksum = hostData[DATA_SIZE]
        /\ lastSentMessage'.sendTime = millis /\ lastSendTime' = millis
  /\ (hostPc # "returned" /\ hostPc' = "returned") =>
        hostReceived'[1] = lastSentMessage.checksum

\* C26: the host's retransmission cadence
C26_RetransmitCadence == [] C26_PendingSendIsLatest /\ [][C26_CadenceStep]_vars

\* C26 witness: two transmissions with different checksum bytes were made and
\* recorded, neither reached the client, and the host is receiving again
C26_Witness ==
  /\ hostPc = "receive" /\ hostLog.sends = 2 /\ air.toClient = << >>
  /\ hostLog.tx[1].data[DATA_SIZE] # hostLog.tx[2].data[DATA_SIZE]
  /\ lastSentMessage.checksum = hostLog.tx[2].data[DATA_SIZE]

\* the fields a Timer holds are those encoded in the buffer data
HoldsFieldsOf(timer, data) ==
  /\ timer.currentTime = TimeFromBytes(data)
  /\ timer.messageInterval = U16FromBytes(data, SIZEOF_TIME_T)
  /\ timer.waitTime = U16FromBytes(data, SIZEOF_TIME_T + 2)
  /\ timer.sleepState = data[SIZEOF_TIME_T + 5]

\* C27: when clientCoordinate has returned, the caller's timer holds the time,
\* messageInterval, waitTime and sleepState of a buffer the host encoded and
\* transmitted in this round; when the host has returned too, both timers hold
\* the same messageInterval.
C27_ScheduleAgreement ==
  /\ clientPc = "returned" =>
       \E i \in DOMAIN hostLog.tx : HoldsFieldsOf(clientTimer, hostLog.tx[i].data)
  /\ (clientPc = "returned" /\ hostPc = "returned") =>
       clientTimer.messageInterval = hostTimer.messageInterval

(***************************************************************************)
(* Claims about the instants at which the two sides wake up                *)
(***************************************************************************)
\* whole seconds between the record of the host's last transmission and its
\* return, and between the client's adoption and its return
HostSeconds == (hostLog.returnedAt - hostLog.recordedAt) \div 1000
ClientSeconds == (clientLog.returnedAt - clientLog.adoptedAt) \div 1000

\* the host has returned on an acknowledgment of its latest transmission, not
\* later than messageInterval seconds after it
HostInTime ==
  /\ hostPc = "returned" /\ hostLog.sends > 0
  /\ hostLog.accepted.kind = "ack" /\ hostLog.accepted.of = hostLog.sends
  /\ HostSeconds <= hostTimer.messageInterval

\* the client has returned not later than messageInterval seconds after the receipt
ClientInTime ==
  clientPc = "returned" /\ ClientSeconds <= clientTimer.messageInterval

\* the true instants (ms) at which the sleeps that were returned end
HostWake == hostLog.returnedAt + 1000 * hostResult.lo
ClientWake == clientLog.returnedAt + 1000 * clientResult.lo

\* the distance of two instants
Distance(a, b) == IF a >= b THEN a - b ELSE b - a

\* C28: the host's sleep ends between 1000 * messageInterval and
\* 1000 * messageInterval + 999 ms after the recorded send timestamp, the
\* client's between 1000 * messageInterval and 1000 * messageInterval + 999 ms
\* after its receipt timestamp; when the client holds the host's latest packet
\* the two instants differ by less than the delivery delay plus 1000 ms.
C28_WakeAligned ==
  /\ HostInTime =>
       /\ hostResult.hi = 0
       /\ HostWake >= hostLog.recordedAt + 1000 * hostTimer.messageInterval
       /\ HostWake <= hostLog.recordedAt + 1000 * hostTimer.messageInterval + 999
  /\ ClientInTime =>
       /\ clientResult.hi = 0
       /\ ClientWake >= clientLog.adoptedAt + 1000 * clientTimer.messageInterval
       /\ ClientWake <= clientLog.adoptedAt + 1000 * clientTimer.messageInterval + 999
  /\ (HostInTime /\ ClientInTime /\ HoldsFieldsOf(clientTimer, LastTx.data)) =>
       Distance(HostWake, ClientWake)
          < Distance(clientLog.adoptedAt, hostLog.recordedAt) + 1000

\* C28 witness: both sides have returned in time, the host 500 ms after its
\* record and the client 1250 ms after its receipt, so that neither elapsed
\* time is a whole number of seconds
C28_Witness ==
  /\ HostInTime /\ ClientInTime /\ HoldsFieldsOf(clientTimer, LastTx.data)
  /\ hostLog.returnedAt - hostLog.recordedAt = 500
  /\ clientLog.returnedAt - clientLog.adoptedAt = 1250
  /\ clientLog.adoptedAt # hostLog.recordedAt

(***************************************************************************)
(* Claims about the Timer's sleepState and the router packet's repair      *)
(***************************************************************************)
\* the values of a 2-bit field
TwoBits == 0..3

\* C29: every Timer object, built by the constructor from field values or
\* filled by a decode that passed the checksum, has a sleepState in 0..3.
C29_SleepStateTwoBits ==
  codecIn.variant = "Timer" =>
     /\ codecIn.pkt.sleepState \in TwoBits
     /\ (codecPc \in { "deserialized", "decoded" } /\ codecOut.ok) =>
           codecOut.pkt.sleepState \in TwoBits

\* the first bytes of a router buffer, without its checksum byte
RouterPayload(buffer) == SubSeq(buffer, 1, ROUTER_PACKET_SIZE - 1)

\* the last byte of a router buffer is the XOR of the bytes before it
RouterChecksumValid(buffer) ==
  buffer[ROUTER_PACKET_SIZE] = XorBytes(buffer, ROUTER_PACKET_SIZE - 1)

\* C30: for a router buffer, valid or not, deserialize followed by
\* recomputeChecksum and serialize writes a buffer with the same payload bytes
\* whose checksum validates and which deserialize accepts; deserialize alone
\* accepts a buffer exactly when its last byte is the XOR of its payload bytes.
C30_RepairOptIn ==
  (codecIn.variant = "RouterPacket" /\ codecPc \in { "deserialized", "decoded", "repaired" }) =>
     /\ codecOut.ok <=> RouterChecksumValid(codecBuf)
     /\ codecPc = "repaired" =>
          /\ Len(codecFixed) = ROUTER_PACKET_SIZE
          /\ RouterPayload(codecFixed) = RouterPayload(codecBuf)
          /\ RouterChecksumValid(codecFixed)
          /\ RouterPacket_deserialize(RouterPacket_default, codecFixed).ok

\* C30 witness: a buffer of 0xFF bytes, which deserialize refused, was decoded
\* into an object that held other values and then repaired
C30_Witness ==
  /\ codecPc = "repaired" /\ codecIn.variant = "RouterPacket"
  /\ codecBuf = [i \in 1..ROUTER_PACKET_SIZE |-> 255]
  /\ ~codecOut.ok /\ codecTarget = CodecOther("RouterPacket")
  /\ codecFixed # codecBuf

(***************************************************************************)
(* Claims about the wire layout and about a refused decode                 *)
(***************************************************************************)
\* the number of bytes of each layout: time(8) interval(2) wait(2) sleepState(1)
\* checksum(1); sequenceId(4) interval(2) window(2) checksum(1); sourceId(1)
\* destId(1) sequenceId(4) interval(2) window(2) checksum(1)
WireSize(variant) ==
  CASE variant = "Timer" -> 14
    [] variant = "SenderPacket" -> 9
    [] variant = "RouterPacket" -> 11

\* the payload bytes of an object, member after member in the order of the
\* layout, least significant byte first, nothing between the members
WirePayload(variant, pkt) ==
  CASE variant = "Timer" ->
         TimeBytes(pkt.currentTime) \o U16Bytes(pkt.messageInterval)
           \o U16Bytes(pkt.waitTime) \o << pkt.sleepState >>
    [] variant = "SenderPacket" ->
         U32Bytes(pkt.packetId) \o U16Bytes(pkt.messageInterval_s)
           \o U16Bytes(pkt.wakeWindow_s)
    [] variant = "RouterPacket" ->
         << pkt.sourceId, pkt.destinationId >> \o U32Bytes(pkt.packetId)
           \o U16Bytes(pkt.messageInterval_s) \o U16Bytes(pkt.wakeWindow_s)

\* p.serialize(buffer) of the class the run is made with
CodecEncode(variant, pkt) ==
  CASE variant = "Timer" -> Timer_serialize(pkt)
    [] variant = "SenderPacket" -> TimerPacket_serialize(pkt)
    [] variant = "RouterPacket" -> RouterPacket_serialize(pkt)

\* the checksum as each class computes it: the Timer from the serialized
\* bytes, the broadcaster's packet from the object's memory, the router's
\* packet from the values of its members
CodecCalculateChecksum(variant, pkt) ==
  CASE variant = "Timer" ->
         XorBytes(Timer_serialize(pkt), DATA_SIZE - 1)
    [] variant = "SenderPacket" -> TimerPacket_calculateChecksum(pkt)
    [] variant = "RouterPacket" -> RouterPacket_calculateChecksum(pkt)

\* buffer is the wire form of pkt: the size of the layout, the members in
\* order without padding, the last byte the XOR of the bytes before it, and
\* that XOR is the checksum the class computes for the object
WireFormOf(variant, pkt, buffer) ==
  /\ Len(buffer) = WireSize(variant)
  /\ SubSeq(buffer, 1, WireSize(variant) - 1) = WirePayload(variant, pkt)
  /\ buffer[WireSize(variant)] = XorBytes(buffer, WireSize(variant) - 1)
  /\ CodecCalculateChecksum(variant, pkt) = XorBytes(buffer, WireSize(variant) - 1)

\* C31: serialize writes 14, 9 or 11 bytes with the members in the fixed order
\* and no padding, the last byte is the XOR of the bytes before it, and the
\* checksum each class computes (from the serialized bytes, from the object's
\* memory, from the member values) equals that XOR; for the objects the
\* constructors build and for the objects a successful decode has filled.
C31_WireLayout ==
  /\ codecPc = "serialized" => WireFormOf(codecIn.variant, codecIn.pkt, codecBuf)
  /\ (codecPc \in { "deserialized", "decoded" } /\ codecOut.ok) =>
        WireFormOf(codecIn.variant, codecOut.pkt,
                   CodecEncode(codecIn.variant, codecOut.pkt))

\* C31 witness: the broadcaster's packet with sequence 0x01020304, interval 10
\* and window 65535 was serialized into 04 03 02 01 0A 00 FF FF 0E
C31_Witness ==
  /\ codecPc = "serialized" /\ codecIn.variant = "SenderPacket"
  /\ codecIn.pkt.packetId = U32(258, 772)
  /\ codecBuf = << 4, 3, 2, 1, 10, 0, 255, 255, 14 >>

\* the checksum member an object stores agrees with its payload members; a
\* Timer stores no checksum
StoredChecksumValid(variant, pkt) ==
  CASE variant = "Timer" -> TRUE
    [] variant = "SenderPacket" -> pkt.checksum = TimerPacket_calculateChecksum(pkt)
    [] variant = "RouterPacket" -> pkt.checksum = RouterPacket_calculateChecksum(pkt)

\* C32: when deserialize has returned false, every member of the object it was
\* called on has the value it had before the call, so an object whose stored
\* checksum matched its payload members before the call still has one that does.
C32_FailedDecodeKeepsObject ==
  (codecPc \in { "deserialized", "decoded" } /\ ~codecOut.ok) =>
     /\ codecOut.pkt = codecTarget
     /\ StoredChecksumValid(codecIn.variant, codecTarget) =>
           StoredChecksumValid(codecIn.variant, codecOut.pkt)

=============================================================================
